---- MODULE Spec2Model ----
(***************************************************************************)
(* Streaming relay (src/app/api/analyze/route.ts, POST) and the client's   *)
(* submit-and-consume loop (src/app/page.tsx, takePhoto).                  *)
(*                                                                         *)
(* One exchange is modelled at a time: a caller (the page, or any other    *)
(* HTTP client posting to the route) sends a body, the relay handles it,   *)
(* and the caller consumes the response.  Text is a sequence of code       *)
(* points below U+0800; bytes are integers; TextEncoder / TextDecoder are  *)
(* the UTF-8 conversions.  The outbound ReadableStream follows the         *)
(* semantics of the Streams standard for a default controller.             *)
(***************************************************************************)
EXTENDS Integers, Sequences, FiniteSets, TLC

\* ------------------------------------------------------------------ bounds
MaxDeltas == 2          \* upstream deltas per request
MaxFeeds == 2           \* device feeds acquired in a session
MaxEvents == 2          \* permission change notifications not yet processed

\* ------------------------------------------------------- program constants
ReplacementChar == 65533        \* U+FFFD, emitted by TextDecoder on bad input
RetrySuffix == ". Please try again."
HaveNothing == 0                \* HTMLMediaElement.HAVE_NOTHING
HaveEnoughData == 4             \* HTMLMediaElement.HAVE_ENOUGH_DATA
NoStream == 0                   \* the stream state holds null

\* ------------------------------------------------------------------ inputs
\* Code points the upstream answer is drawn from: 'a' (1 byte), U+00E9 (2 bytes)
Chars == {97, 233}

\* An upstream chunk: choices may be empty, delta.content may be null, "" or text
Deltas ==
  {[choices |-> 0, content |-> "null", text |-> <<>>],
   [choices |-> 1, content |-> "null", text |-> <<>>],
   [choices |-> 1, content |-> "string", text |-> <<>>]}
  \cup {[choices |-> 1, content |-> "string", text |-> <<c>>] : c \in Chars}

\* Request bodies: unparseable JSON, or an object whose image field is
\* undefined (absent), null or a string.
DataUrl == "data:image/jpeg;base64,AAAA"
Unparseable == [json |-> FALSE, type |-> "undefined", str |-> ""]
ImageAbsent == [json |-> TRUE, type |-> "undefined", str |-> ""]
ImageNull == [json |-> TRUE, type |-> "null", str |-> ""]
ImageEmpty == [json |-> TRUE, type |-> "string", str |-> ""]
ImageDataUrl == [json |-> TRUE, type |-> "string", str |-> DataUrl]
ImageText == [json |-> TRUE, type |-> "string", str |-> "hello"]
Bodies == {Unparseable, ImageAbsent, ImageNull, ImageEmpty, ImageDataUrl,
           ImageText}

\* PermissionState values
Permissions == {"prompt", "granted", "denied"}

\* err.name of a rejected getUserMedia call
AcquireErrors == {"NotAllowedError", "NotFoundError", "NotReadableError",
                  "AbortError"}

VARIABLES
  apiKey,          \* process.env.OPENAI_API_KEY is set
  caller,          \* who sent the latest request: "none", "page", "direct"
  reqBody,         \* body of the request in flight
  relayState,      \* per-request state of POST
  cause,           \* why the request was rejected ("none" if it was not)
  upstreamCalls,   \* upstream calls issued for this request
  deltas,          \* upstream chunks received so far by the for-await loop
  upstreamFailed,  \* the upstream iterator threw
  enqueued,        \* every chunk passed to controller.enqueue, in order
  queue,           \* the stream's internal queue
  streamState,     \* "none", "readable", "closed", "errored"
  closeRequested,  \* close() was called while the queue was non-empty
  respStatus,      \* 0 until the relay has produced a response
  respError,       \* the error field of a JSON error body, "" if none
  wire,            \* bytes sent on the connection and not yet read
  wireEnd,         \* "open", "closed" (clean end), "errored" (torn down)
  prevReject,      \* kind and status of the last rejected request before this one
  readerPc,        \* the caller's position: "idle", "fetching", "reading"
  readerEnd,       \* how the latest submission ended: "none", "done",
                   \* "error" (error response or read error), "failed" (no response)
  analysis,        \* page state: transcript
  isLoading,       \* page state: busy indicator
  error,           \* page state: error message, <<>> when empty
  stream,          \* page state: the MediaStream held (a feed id) or NoStream
  tracks,          \* per acquired feed, in order: "live" or "ended"
  pendingGUM,      \* getUserMedia calls not yet settled
  readyState,      \* readyState of the preview video element
  playPending,     \* the preview's play() promise is not yet settled
  permissionState, \* page state: displayed permission
  platformPerm,    \* the platform's camera permission
  permQueries,     \* permissions.query calls not yet settled
  listeners,       \* change listeners registered on permission statuses
  permEvents       \* change notifications queued and not yet processed

relayVars == <<relayState, cause, upstreamCalls, deltas, upstreamFailed,
               enqueued, queue, streamState, closeRequested, respStatus,
               respError>>
wireVars == <<wire, wireEnd>>
pageVars == <<analysis, isLoading, error>>
cameraVars == <<stream, tracks, pendingGUM, readyState, playPending>>
permVars == <<permissionState, platformPerm, permQueries, listeners, permEvents>>
deviceVars == <<cameraVars, permVars>>
vars == <<apiKey, caller, reqBody, relayVars, wireVars, prevReject, readerPc,
          readerEnd, pageVars, deviceVars>>

\* --------------------------------------------------------- pure functions
\* TextEncoder.encode of one code point (UTF-8, code points below U+0800)
EncodeChar(cp) ==
  IF cp < 128 THEN <<cp>>
  ELSE <<192 + (cp \div 64), 128 + (cp % 64)>>

RECURSIVE Encode(_)
Encode(text) ==
  IF text = <<>> THEN <<>> ELSE EncodeChar(Head(text)) \o Encode(Tail(text))

\* TextDecoder.decode(value) without {stream: true}: every call decodes its
\* argument alone, an incomplete or stray byte becomes U+FFFD.
RECURSIVE Decode(_)
Decode(bs) ==
  IF bs = <<>> THEN <<>>
  ELSE LET b == Head(bs) IN
    IF b < 128 THEN <<b>> \o Decode(Tail(bs))
    ELSE IF b \in 194..223 /\ Len(bs) >= 2 /\ bs[2] \in 128..191
      THEN <<(b - 192) * 64 + (bs[2] - 128)>> \o Decode(SubSeq(bs, 3, Len(bs)))
      ELSE <<ReplacementChar>> \o Decode(Tail(bs))

\* the delta's text is never picked up
DeltaText_Blank(d) == <<>>

\* chunk.choices[0]?.delta?.content || ''
DeltaText(d) ==
  IF d.choices = 0 \/ d.content = "null" \/ d.text = <<>> THEN <<>> ELSE d.text

\* only a nullish image counts as missing (image == null)
Falsy_Nullish(b) == b.type \in {"undefined", "null"}

\* !image
Falsy(b) ==
  \/ b.type \in {"undefined", "null"}
  \/ b.type = "string" /\ b.str = ""

\* ------------------------------------------------------------------- Init
Init ==
  /\ apiKey \in BOOLEAN
  /\ caller = "none"
  /\ reqBody = ImageAbsent
  /\ relayState = "Idle"
  /\ cause = "none"
  /\ upstreamCalls = 0
  /\ deltas = <<>>
  /\ upstreamFailed = FALSE
  /\ enqueued = <<>>
  /\ queue = <<>>
  /\ streamState = "none"
  /\ closeRequested = FALSE
  /\ respStatus = 0
  /\ respError = ""
  /\ wire = <<>>
  /\ wireEnd = "open"
  /\ prevReject = [kind |-> "none", status |-> 0]
  /\ readerPc = "idle"
  /\ readerEnd = "none"
  /\ analysis = <<>>
  /\ isLoading = FALSE
  /\ error = <<>>
  /\ stream = NoStream
  /\ tracks = <<>>
  /\ pendingGUM = 0
  /\ readyState = HaveNothing
  /\ playPending = FALSE
  /\ permissionState = "prompt"
  /\ platformPerm = "prompt"
  /\ permQueries = 1
  /\ listeners = 0
  /\ permEvents = 0

\* A fresh request: a new handler invocation, a new connection
NewExchange(who, body) ==
  /\ caller' = who
  /\ reqBody' = body
  /\ relayState' = "Idle"
  /\ cause' = "none"
  /\ upstreamCalls' = 0
  /\ deltas' = <<>>
  /\ upstreamFailed' = FALSE
  /\ enqueued' = <<>>
  /\ queue' = <<>>
  /\ streamState' = "none"
  /\ closeRequested' = FALSE
  /\ respStatus' = 0
  /\ respError' = ""
  /\ wire' = <<>>
  /\ wireEnd' = "open"
  /\ prevReject' = IF relayState = "Rejected"
                   THEN [kind |-> cause, status |-> respStatus]
                   ELSE prevReject
  /\ readerPc' = "fetching"
  /\ readerEnd' = "none"
  /\ UNCHANGED <<deviceVars, apiKey>>

\* ------------------------------------------- outbound stream (controller)
\* controller.enqueue(chunk): the chunk joins the stream's queue
QueueAfterEnqueue(q, chunk) == Append(q, chunk)

\* controller.error(e): the stream's queue is reset, unread chunks are gone
QueueAfterError(q) == <<>>

\* controller.error(e) on a readable stream puts it in the errored state
StateAfterError(st) == IF st = "readable" THEN "errored" ELSE st

\* close() succeeds whatever state the stream is in
StateAfterClose_Forced(st, q) == IF q = <<>> THEN "closed" ELSE st

\* controller.close(): on a stream that is not readable it throws and
\* changes nothing; on a readable one the stream closes once its queue is empty
StateAfterClose(st, q) ==
  IF st = "readable" /\ q = <<>> THEN "closed" ELSE st

CloseRequestedAfterClose(st, q) == st = "readable" /\ q # <<>>

\* ------------------------------------------------------------- relay: POST
\* the handler without its credential check
POST_Start_NoKeyCheck ==
  /\ readerPc = "fetching"
  /\ relayState = "Idle"
  /\ relayState' = "Validating"
  /\ UNCHANGED <<deviceVars, apiKey, caller, reqBody, cause, upstreamCalls, deltas,
                 upstreamFailed, enqueued, queue, streamState, closeRequested,
                 respStatus, respError, wireVars, prevReject, readerPc,
                 readerEnd, pageVars>>

\* route.ts 9-15: the credential check
POST_Start ==
  /\ readerPc = "fetching"
  /\ relayState = "Idle"
  /\ IF ~apiKey
     THEN /\ respStatus' = 500
          /\ respError' = "OpenAI API key is not configured"
          /\ relayState' = "Rejected"
          /\ cause' = "config"
     ELSE /\ relayState' = "Validating"
          /\ UNCHANGED <<respStatus, respError, cause>>
  /\ UNCHANGED <<deviceVars, apiKey, caller, reqBody, upstreamCalls, deltas,
                 upstreamFailed, enqueued, queue, streamState, closeRequested,
                 wireVars, prevReject, readerPc, readerEnd, pageVars>>

\* route.ts 17-27 and 68-73: parse the body, check the image, call upstream
POST_Parse ==
  /\ relayState = "Validating"
  /\ IF ~reqBody.json
     THEN /\ respStatus' = 500
          /\ respError' = "Failed to analyze image"
          /\ relayState' = "Rejected"
          /\ cause' = "badinput"
          /\ UNCHANGED upstreamCalls
     ELSE IF Falsy(reqBody)
     THEN /\ respStatus' = 400
          /\ respError' = "No image data provided"
          /\ relayState' = "Rejected"
          /\ cause' = "badinput"
          /\ UNCHANGED upstreamCalls
     ELSE /\ upstreamCalls' = upstreamCalls + 1
          /\ relayState' = "Upstreaming"
          /\ UNCHANGED <<respStatus, respError, cause>>
  /\ UNCHANGED <<deviceVars, apiKey, caller, reqBody, deltas, upstreamFailed, enqueued,
                 queue, streamState, closeRequested, wireVars, prevReject,
                 readerPc, readerEnd, pageVars>>

\* a rejected create() is issued again instead of being reported
UpstreamReject_Retry ==
  /\ relayState = "Upstreaming"
  /\ upstreamCalls' = upstreamCalls + 1
  /\ UNCHANGED <<deviceVars, apiKey, caller, reqBody, relayState, cause, deltas,
                 upstreamFailed, enqueued, queue, streamState, closeRequested,
                 respStatus, respError, wireVars, prevReject, readerPc,
                 readerEnd, pageVars>>

\* route.ts 27, 68-73: create() rejects before any token
UpstreamReject ==
  /\ relayState = "Upstreaming"
  /\ respStatus' = 500
  /\ respError' = "Failed to analyze image"
  /\ relayState' = "Rejected"
  /\ cause' = "upstream"
  /\ UNCHANGED <<deviceVars, apiKey, caller, reqBody, upstreamCalls, deltas,
                 upstreamFailed, enqueued, queue, streamState, closeRequested,
                 wireVars, prevReject, readerPc, readerEnd, pageVars>>

\* route.ts 27, 51-67: create() resolves, the stream is built and returned
UpstreamAccept ==
  /\ relayState = "Upstreaming"
  /\ streamState' = "readable"
  /\ respStatus' = 200
  /\ relayState' = "Streaming"
  /\ UNCHANGED <<deviceVars, apiKey, caller, reqBody, cause, upstreamCalls, deltas,
                 upstreamFailed, enqueued, queue, closeRequested, respError,
                 wireVars, prevReject, readerPc, readerEnd, pageVars>>

\* route.ts 55-58: one iteration of the for-await loop
StreamDelta(d) ==
  /\ relayState = "Streaming"
  /\ Len(deltas) < MaxDeltas
  /\ deltas' = Append(deltas, d)
  /\ enqueued' = Append(enqueued, Encode(DeltaText(d)))
  /\ queue' = QueueAfterEnqueue(queue, Encode(DeltaText(d)))
  /\ UNCHANGED <<deviceVars, apiKey, caller, reqBody, relayState, cause, upstreamCalls,
                 upstreamFailed, streamState, closeRequested, respStatus,
                 respError, wireVars, prevReject, readerPc, readerEnd,
                 pageVars>>

\* route.ts 55, 61-63: upstream signals end, finally closes the stream
StreamEnd ==
  /\ relayState = "Streaming"
  /\ streamState' = StateAfterClose(streamState, queue)
  /\ closeRequested' = CloseRequestedAfterClose(streamState, queue)
  /\ relayState' = "Completed"
  /\ UNCHANGED <<deviceVars, apiKey, caller, reqBody, cause, upstreamCalls, deltas,
                 upstreamFailed, enqueued, queue, respStatus, respError,
                 wireVars, prevReject, readerPc, readerEnd, pageVars>>

\* route.ts 59-63: the upstream iterator throws; catch calls error(), then
\* finally calls close() on the stream error() has just left
StreamFail ==
  /\ relayState = "Streaming"
  /\ upstreamFailed' = TRUE
  /\ queue' = QueueAfterError(queue)
  /\ streamState' = StateAfterClose(StateAfterError(streamState),
                                    QueueAfterError(queue))
  /\ closeRequested' = CloseRequestedAfterClose(StateAfterError(streamState),
                                                QueueAfterError(queue))
  /\ relayState' = "StreamError"
  /\ UNCHANGED <<deviceVars, apiKey, caller, reqBody, cause, upstreamCalls, deltas,
                 enqueued, respStatus, respError, wireVars, prevReject,
                 readerPc, readerEnd, pageVars>>

\* ------------------------------------------- response body on the connection
\* route.ts 67: the response body is read from the stream and written out
PumpChunk ==
  /\ streamState = "readable"
  /\ queue # <<>>
  /\ wire' = wire \o Head(queue)
  /\ queue' = Tail(queue)
  /\ streamState' = IF closeRequested /\ Tail(queue) = <<>>
                    THEN "closed" ELSE streamState
  /\ UNCHANGED <<deviceVars, apiKey, caller, reqBody, relayState, cause, upstreamCalls,
                 deltas, upstreamFailed, enqueued, closeRequested, respStatus,
                 respError, wireEnd, prevReject, readerPc, readerEnd,
                 pageVars>>

\* the stream closed: the body ends cleanly
PumpClose ==
  /\ streamState = "closed"
  /\ wireEnd = "open"
  /\ wireEnd' = "closed"
  /\ UNCHANGED <<deviceVars, apiKey, caller, reqBody, relayVars, wire, prevReject,
                 readerPc, readerEnd, pageVars>>

\* the stream errored: the connection is torn down
PumpError ==
  /\ streamState = "errored"
  /\ wireEnd = "open"
  /\ wireEnd' = "errored"
  /\ UNCHANGED <<deviceVars, apiKey, caller, reqBody, relayVars, wire, prevReject,
                 readerPc, readerEnd, pageVars>>

\* ------------------------------------------------------- client: takePhoto
\* the readiness check is missing: the frame is submitted anyway
TakePhotoNotReady_Submits ==
  /\ readerPc = "idle"
  /\ ~isLoading
  /\ isLoading' = TRUE
  /\ analysis' = <<>>
  /\ error' = <<>>
  /\ NewExchange("page", ImageDataUrl)

\* page.tsx 110-113, 151-156: the feed is not ready
TakePhotoNotReady ==
  /\ readerPc = "idle"
  /\ ~isLoading
  /\ error' = <<"Video stream not ready", RetrySuffix>>
  /\ isLoading' = FALSE
  /\ readerEnd' = "none"
  /\ UNCHANGED <<deviceVars, apiKey, caller, reqBody, relayVars, wireVars, prevReject,
                 readerPc, analysis>>

\* the busy indicator is not set when the submission starts
TakePhoto_NoBusy ==
  /\ readerPc = "idle"
  /\ ~isLoading
  /\ analysis' = <<>>
  /\ error' = <<>>
  /\ UNCHANGED isLoading
  /\ NewExchange("page", ImageDataUrl)

\* the previous transcript is not cleared
TakePhoto_KeepsTranscript ==
  /\ readerPc = "idle"
  /\ ~isLoading
  /\ isLoading' = TRUE
  /\ error' = <<>>
  /\ UNCHANGED analysis
  /\ NewExchange("page", ImageDataUrl)

\* page.tsx 110-132: capture the frame, reset the page state, send the request
TakePhoto ==
  /\ readerPc = "idle"
  /\ ~isLoading
  /\ isLoading' = TRUE
  /\ analysis' = <<>>
  /\ error' = <<>>
  /\ NewExchange("page", ImageDataUrl)

\* any other HTTP client posting to the route; the body the page sends is
\* sent by TakePhoto
DirectPost(body) ==
  /\ readerPc = "idle"
  /\ body # ImageDataUrl
  /\ NewExchange("direct", body)
  /\ UNCHANGED pageVars

\* the busy indicator is cleared as soon as fetch resolves
FetchResolve_EarlyIdle ==
  /\ readerPc = "fetching"
  /\ respStatus # 0
  /\ IF respStatus \in 200..299
     THEN /\ readerPc' = "reading"
          /\ isLoading' = FALSE
          /\ UNCHANGED <<readerEnd, analysis, error>>
     ELSE /\ readerPc' = "idle"
          /\ readerEnd' = "error"
          /\ IF caller = "page"
             THEN /\ error' = <<IF respError # "" THEN respError
                                ELSE "Failed to analyze image", RetrySuffix>>
                  /\ isLoading' = FALSE
                  /\ UNCHANGED analysis
             ELSE UNCHANGED pageVars
  /\ UNCHANGED <<deviceVars, apiKey, caller, reqBody, relayVars, wireVars, prevReject>>

\* page.tsx 126-139: fetch resolves with the response head
FetchResolve ==
  /\ readerPc = "fetching"
  /\ respStatus # 0
  /\ IF respStatus \in 200..299
     THEN /\ readerPc' = "reading"
          /\ UNCHANGED <<readerEnd, pageVars>>
     ELSE /\ readerPc' = "idle"
          /\ readerEnd' = "error"
          /\ IF caller = "page"
             THEN /\ error' = <<IF respError # "" THEN respError
                                ELSE "Failed to analyze image", RetrySuffix>>
                  /\ isLoading' = FALSE
                  /\ UNCHANGED analysis
             ELSE UNCHANGED pageVars
  /\ UNCHANGED <<deviceVars, apiKey, caller, reqBody, relayVars, wireVars, prevReject>>

\* page.tsx 143-149: read() yields the next k bytes the connection delivered
ReadChunk(k) ==
  /\ readerPc = "reading"
  /\ k \in 1..Len(wire)
  /\ wire' = SubSeq(wire, k + 1, Len(wire))
  /\ IF caller = "page"
     THEN analysis' = analysis \o Decode(SubSeq(wire, 1, k))
     ELSE UNCHANGED analysis
  /\ UNCHANGED <<deviceVars, apiKey, caller, reqBody, relayVars, wireEnd, prevReject,
                 readerPc, readerEnd, isLoading, error>>

\* page.tsx 144-145, 154-156: read() reports done
ReadDone ==
  /\ readerPc = "reading"
  /\ wire = <<>>
  /\ wireEnd = "closed"
  /\ readerPc' = "idle"
  /\ readerEnd' = "done"
  /\ IF caller = "page" THEN isLoading' = FALSE ELSE UNCHANGED isLoading
  /\ UNCHANGED <<deviceVars, apiKey, caller, reqBody, relayVars, wireVars, prevReject, analysis,
                 error>>

\* a read error discards the fragments already shown
ReadError_Rollback ==
  /\ readerPc = "reading"
  /\ wire = <<>>
  /\ wireEnd = "errored"
  /\ readerPc' = "idle"
  /\ readerEnd' = "error"
  /\ IF caller = "page"
     THEN /\ error' = <<"network error", RetrySuffix>>
          /\ isLoading' = FALSE
          /\ analysis' = <<>>
     ELSE UNCHANGED <<error, isLoading, analysis>>
  /\ UNCHANGED <<deviceVars, apiKey, caller, reqBody, relayVars, wireVars, prevReject>>

\* page.tsx 144, 151-156: read() rejects
ReadError ==
  /\ readerPc = "reading"
  /\ wire = <<>>
  /\ wireEnd = "errored"
  /\ readerPc' = "idle"
  /\ readerEnd' = "error"
  /\ IF caller = "page"
     THEN /\ error' = <<"network error", RetrySuffix>>
          /\ isLoading' = FALSE
     ELSE UNCHANGED <<error, isLoading>>
  /\ UNCHANGED <<deviceVars, apiKey, caller, reqBody, relayVars, wireVars, prevReject, analysis>>


\* ---------------------------------------------------------- client: camera
\* page.tsx 69-85: the message shown for a failed acquisition
CameraErrorMessage(name) ==
  CASE name = "NotAllowedError" ->
         <<"Camera access denied. Please enable camera access in your browser settings and try again.">>
    [] name = "NotFoundError" -> <<"No camera found on your device.">>
    [] name = "NotReadableError" ->
         <<"Camera is already in use by another application.">>
    [] OTHER -> <<"Failed to access camera: ", name>>

\* page.tsx 46-62, 181-188: Start Camera is clicked; the button is rendered
\* while the stream state is null
StartCamera ==
  /\ stream = NoStream
  /\ Len(tracks) + pendingGUM < MaxFeeds
  /\ error' = <<>>
  /\ pendingGUM' = pendingGUM + 1
  /\ UNCHANGED <<apiKey, caller, reqBody, relayVars, wireVars, prevReject,
                 readerPc, readerEnd, analysis, isLoading, stream, tracks,
                 readyState, playPending, permVars>>

\* page.tsx 62-66, 22-30: getUserMedia resolves with a new feed; it becomes
\* the stream state, the preview is bound to it and played, and the
\* permission is queried again
AcquireDone ==
  /\ pendingGUM > 0
  /\ pendingGUM' = pendingGUM - 1
  /\ tracks' = Append(tracks, "live")
  /\ stream' = Len(tracks) + 1
  /\ readyState' = HaveNothing
  /\ playPending' = TRUE
  /\ permQueries' = permQueries + 1
  /\ UNCHANGED <<apiKey, caller, reqBody, relayVars, wireVars, prevReject,
                 readerPc, readerEnd, pageVars, permissionState, platformPerm,
                 listeners, permEvents>>

\* page.tsx 62, 68-87: getUserMedia rejects
AcquireFail(name) ==
  /\ pendingGUM > 0
  /\ pendingGUM' = pendingGUM - 1
  /\ error' = CameraErrorMessage(name)
  /\ UNCHANGED <<apiKey, caller, reqBody, relayVars, wireVars, prevReject,
                 readerPc, readerEnd, analysis, isLoading, stream, tracks,
                 readyState, playPending, permVars>>

\* the bound feed has buffered enough data for a frame
VideoCanPlay ==
  /\ stream # NoStream
  /\ readyState = HaveNothing
  /\ readyState' = HaveEnoughData
  /\ UNCHANGED <<apiKey, caller, reqBody, relayVars, wireVars, prevReject,
                 readerPc, readerEnd, pageVars, stream, tracks, pendingGUM,
                 playPending, permVars>>

\* page.tsx 25: play() resolves
VideoPlayOk ==
  /\ playPending
  /\ playPending' = FALSE
  /\ UNCHANGED <<apiKey, caller, reqBody, relayVars, wireVars, prevReject,
                 readerPc, readerEnd, pageVars, stream, tracks, pendingGUM,
                 readyState, permVars>>

\* page.tsx 25-28: play() rejects
VideoPlayFail ==
  /\ playPending
  /\ playPending' = FALSE
  /\ error' = <<"Failed to start video stream">>
  /\ UNCHANGED <<apiKey, caller, reqBody, relayVars, wireVars, prevReject,
                 readerPc, readerEnd, analysis, isLoading, stream, tracks,
                 pendingGUM, readyState, permVars>>

\* The part of the client state stopCamera works on
CameraState ==
  [stream |-> stream, tracks |-> tracks, readyState |-> readyState,
   threw |-> FALSE]

\* stream.getTracks().forEach(track => track.stop())
StopTracks(ts, id) ==
  [i \in 1..Len(ts) |-> IF i = id THEN "ended" ELSE ts[i]]

\* stopCamera without its check of the stream state
StopCameraResult_NoGuard(c) ==
  IF c.stream # NoStream
  THEN [c EXCEPT !.stream = NoStream,
                 !.tracks = StopTracks(c.tracks, c.stream),
                 !.readyState = HaveNothing]
  ELSE [c EXCEPT !.threw = TRUE]

\* page.tsx 90-98: stopCamera
StopCameraResult(c) ==
  IF c.stream # NoStream
  THEN [c EXCEPT !.stream = NoStream,
                 !.tracks = StopTracks(c.tracks, c.stream),
                 !.readyState = HaveNothing]
  ELSE c

\* stopping the camera abandons the submission in flight
StopCamera_Cancels ==
  /\ stream # NoStream
  /\ stream' = StopCameraResult(CameraState).stream
  /\ tracks' = StopCameraResult(CameraState).tracks
  /\ readyState' = StopCameraResult(CameraState).readyState
  /\ playPending' = FALSE
  /\ readerPc' = "idle"
  /\ isLoading' = FALSE
  /\ UNCHANGED <<apiKey, caller, reqBody, relayVars, wireVars, prevReject,
                 readerEnd, analysis, error, pendingGUM, permVars>>

\* page.tsx 90-98, 189-195: Stop Camera is clicked
StopCamera ==
  /\ stream # NoStream
  /\ stream' = StopCameraResult(CameraState).stream
  /\ tracks' = StopCameraResult(CameraState).tracks
  /\ readyState' = StopCameraResult(CameraState).readyState
  /\ playPending' = FALSE
  /\ UNCHANGED <<apiKey, caller, reqBody, relayVars, wireVars, prevReject,
                 readerPc, readerEnd, pageVars, pendingGUM, permVars>>

\* ------------------------------------------------------ client: permission
\* page.tsx 34-40: the query resolves; the displayed state is set and a
\* change listener is registered
PermQueryResolve ==
  /\ permQueries > 0
  /\ permQueries' = permQueries - 1
  /\ permissionState' = platformPerm
  /\ listeners' = listeners + 1
  /\ UNCHANGED <<apiKey, caller, reqBody, relayVars, wireVars, prevReject,
                 readerPc, readerEnd, pageVars, cameraVars, platformPerm,
                 permEvents>>

\* page.tsx 41-43: the query rejects (Permissions API not supported)
PermQueryReject ==
  /\ permQueries > 0
  /\ permQueries' = permQueries - 1
  /\ UNCHANGED <<apiKey, caller, reqBody, relayVars, wireVars, prevReject,
                 readerPc, readerEnd, pageVars, cameraVars, permissionState,
                 platformPerm, listeners, permEvents>>

\* the platform changes the permission and notifies the registered listeners
PlatformPermChange(p) ==
  /\ p # platformPerm
  /\ permEvents < MaxEvents
  /\ platformPerm' = p
  /\ permEvents' = IF listeners > 0 THEN permEvents + 1 ELSE permEvents
  /\ UNCHANGED <<apiKey, caller, reqBody, relayVars, wireVars, prevReject,
                 readerPc, readerEnd, pageVars, cameraVars, permissionState,
                 permQueries, listeners>>

\* the listeners ignore the notification
PermChangeEvent_Stale ==
  /\ permEvents > 0
  /\ permEvents' = permEvents - 1
  /\ UNCHANGED <<apiKey, caller, reqBody, relayVars, wireVars, prevReject,
                 readerPc, readerEnd, pageVars, cameraVars, permissionState,
                 platformPerm, permQueries, listeners>>

\* page.tsx 38-40: a change notification is delivered to the listeners
PermChangeEvent ==
  /\ permEvents > 0
  /\ permEvents' = permEvents - 1
  /\ permissionState' = platformPerm
  /\ UNCHANGED <<apiKey, caller, reqBody, relayVars, wireVars, prevReject,
                 readerPc, readerEnd, pageVars, cameraVars, platformPerm,
                 permQueries, listeners>>

\* page.tsx 126-132, 151-156: fetch rejects, the request never reached the relay
FetchFail ==
  /\ readerPc = "fetching"
  /\ relayState = "Idle"
  /\ readerPc' = "idle"
  /\ readerEnd' = "failed"
  /\ IF caller = "page"
     THEN /\ error' = <<"Failed to fetch", RetrySuffix>>
          /\ isLoading' = FALSE
     ELSE UNCHANGED <<error, isLoading>>
  /\ UNCHANGED <<deviceVars, apiKey, caller, reqBody, relayVars, wireVars,
                 prevReject, analysis>>

\* page.tsx 101-113, 198-206: Take Photo is clicked on a feed that is not ready
CaptureNotReady ==
  /\ stream # NoStream
  /\ readyState # HaveEnoughData
  /\ TakePhotoNotReady

\* page.tsx 101-132, 198-206: Take Photo is clicked on a ready feed
Capture ==
  /\ stream # NoStream
  /\ readyState = HaveEnoughData
  /\ TakePhoto

\* ------------------------------------------------------------------- Next
Next ==
  \/ TakePhotoNotReady
  \/ TakePhoto
  \/ \E body \in Bodies : DirectPost(body)
  \/ POST_Start
  \/ POST_Parse
  \/ UpstreamReject
  \/ UpstreamAccept
  \/ \E d \in Deltas : StreamDelta(d)
  \/ StreamEnd
  \/ StreamFail
  \/ PumpChunk
  \/ PumpClose
  \/ PumpError
  \/ FetchResolve
  \/ FetchFail
  \/ \E k \in 1..(2 * MaxDeltas) : ReadChunk(k)
  \/ ReadDone
  \/ ReadError

Spec == Init /\ [][Next]_vars


\* The client alone: camera, capture, submission and consumption
ClientDeltas == {d \in Deltas : d.content = "string"}

NextClient ==
  \/ StartCamera
  \/ AcquireDone
  \/ \E name \in AcquireErrors : AcquireFail(name)
  \/ VideoCanPlay
  \/ VideoPlayOk
  \/ VideoPlayFail
  \/ StopCamera
  \/ CaptureNotReady
  \/ Capture
  \/ FetchFail
  \/ POST_Start
  \/ POST_Parse
  \/ UpstreamReject
  \/ UpstreamAccept
  \/ \E d \in ClientDeltas : StreamDelta(d)
  \/ StreamEnd
  \/ StreamFail
  \/ PumpChunk
  \/ PumpClose
  \/ PumpError
  \/ FetchResolve
  \/ \E k \in 1..(2 * MaxDeltas) : ReadChunk(k)
  \/ ReadDone
  \/ ReadError

SpecClient == Init /\ [][NextClient]_vars

\* The camera and the permission state alone
NextCamera ==
  \/ StartCamera
  \/ AcquireDone
  \/ \E name \in AcquireErrors : AcquireFail(name)
  \/ VideoCanPlay
  \/ VideoPlayOk
  \/ VideoPlayFail
  \/ StopCamera
  \/ CaptureNotReady
  \/ PermQueryResolve
  \/ PermQueryReject
  \/ \E p \in Permissions : PlatformPermChange(p)
  \/ PermChangeEvent

SpecCamera == Init /\ [][NextCamera]_vars

TypeOK ==
  /\ apiKey \in BOOLEAN
  /\ caller \in {"none", "page", "direct"}
  /\ reqBody \in Bodies
  /\ relayState \in {"Idle", "Validating", "Rejected", "Upstreaming",
                     "Streaming", "Completed", "StreamError"}
  /\ cause \in {"none", "config", "badinput", "upstream"}
  /\ upstreamCalls \in 0..1
  /\ Len(deltas) <= MaxDeltas
  /\ streamState \in {"none", "readable", "closed", "errored"}
  /\ respStatus \in {0, 200, 400, 500}
  /\ wireEnd \in {"open", "closed", "errored"}
  /\ readerPc \in {"idle", "fetching", "reading"}
  /\ readerEnd \in {"none", "done", "error", "failed"}
  /\ isLoading \in BOOLEAN
  /\ stream \in 0..Len(tracks)
  /\ Len(tracks) + pendingGUM <= MaxFeeds
  /\ readyState \in {HaveNothing, HaveEnoughData}
  /\ playPending \in BOOLEAN
  /\ permissionState \in Permissions
  /\ platformPerm \in Permissions
  /\ permEvents \in 0..MaxEvents

\* ================================================================= claims
\* The upstream answer: the content of the deltas, in arrival order
Content(d) == IF d.choices = 1 /\ d.content = "string" THEN d.text ELSE <<>>

RECURSIVE Answer(_)
Answer(ds) == IF ds = <<>> THEN <<>> ELSE Content(Head(ds)) \o Answer(Tail(ds))

RECURSIVE Flatten(_)
Flatten(ss) == IF ss = <<>> THEN <<>> ELSE Head(ss) \o Flatten(Tail(ss))

IsPrefix(s, t) == Len(s) <= Len(t) /\ SubSeq(t, 1, Len(s)) = s

\* The text carried by the chunks handed to controller.enqueue so far
EnqueuedText == Decode(Flatten(enqueued))

Terminal == {"Rejected", "Completed", "StreamError"}
Handled == relayState \notin {"Idle", "Validating"}

\* C1: at every moment the text enqueued on the outbound stream is a prefix
\* of the concatenation of the upstream deltas' content in arrival order, and
\* once upstream has ended without error it equals that concatenation.
C1_EnqueuedIsAnswer ==
  /\ IsPrefix(EnqueuedText, Answer(deltas))
  /\ Len(enqueued) = Len(deltas)
  /\ relayState = "Completed" => EnqueuedText = Answer(deltas)

C1_Witness ==
  /\ relayState = "Completed"
  /\ Len(deltas) >= 2
  /\ Len(Answer(deltas)) >= 2
  /\ 233 \in {Answer(deltas)[i] : i \in 1..Len(Answer(deltas))}

\* C2: if upstream fails after emitting N>0 chunks, the page's final
\* transcript is the concatenation of exactly those N chunks and an error is
\* shown, whatever the interleaving of enqueues, the error and the reads.
C2_PartialThenError ==
  (caller = "page" /\ upstreamFailed /\ Len(deltas) > 0 /\ readerEnd = "error")
    => (analysis = Answer(deltas) /\ error # <<>> /\ ~isLoading)

\* C3: when upstream raised an error after the stream started, the stream
\* ends errored and never closed, and the caller never observes done, though
\* the relay calls close() after error().
C3_ErrorIsTerminal ==
  upstreamFailed =>
    /\ streamState = "errored"
    /\ wireEnd # "closed"
    /\ readerEnd # "done"

C3_Witness ==
  /\ upstreamFailed
  /\ relayState = "StreamError"
  /\ Len(deltas) > 0
  /\ readerEnd = "error"

NoImage(b) == b \in {ImageAbsent, ImageNull, ImageEmpty}

C5_MissingImage ==
  (apiKey /\ NoImage(reqBody) /\ Handled) =>
    /\ relayState = "Rejected"
    /\ respStatus = 400
    /\ respError = "No image data provided"
    /\ upstreamCalls = 0
    /\ streamState = "none"

C5_Witness ==
  /\ apiKey
  /\ reqBody = ImageEmpty
  /\ relayState = "Rejected"
  /\ respStatus = 400

\* C6: a malformed or invalid image input (a body that cannot be parsed, an
\* image field that is present but is not a data-URL string) is rejected
\* with a 400-class status and is not forwarded upstream.
Malformed(b) == ~b.json \/ b = ImageText

C6_MalformedIs400 ==
  (apiKey /\ Malformed(reqBody) /\ Handled) =>
    /\ relayState = "Rejected"
    /\ respStatus \in 400..499
    /\ upstreamCalls = 0

\* C7: every pre-stream failure is one structured error result with zero
\* stream bytes, and failures of different kinds carry different categories
\* (the status), not only different messages.
C7_DistinctCategories ==
  relayState = "Rejected" =>
    /\ respError # ""
    /\ respStatus \notin 200..299
    /\ streamState = "none" /\ enqueued = <<>> /\ wire = <<>>
    /\ (prevReject.kind # "none" /\ prevReject.kind # cause)
         => prevReject.status # respStatus

\* C8: at most one upstream call per request in every state, and once the
\* request is Rejected, Completed or StreamError it issues no further
\* upstream call and no further outbound chunk.
NewRequest == readerPc = "idle" /\ readerPc' = "fetching"

C8_SingleCallNoRetry ==
  /\ [](upstreamCalls <= 1)
  /\ [][(relayState \in Terminal /\ ~NewRequest) =>
          /\ upstreamCalls' = upstreamCalls
          /\ enqueued' = enqueued
          /\ deltas' = deltas
          /\ relayState' = relayState]_vars

C8_Witness ==
  /\ relayState = "Rejected"
  /\ cause = "upstream"
  /\ upstreamCalls = 1
  /\ readerEnd = "error"

\* C9: no request ends as a silent empty success: a stream that closed
\* cleanly carried a non-empty sequence of chunks.
C9_NoEmptySuccess ==
  relayState = "Completed" => (enqueued # <<>> /\ EnqueuedText # <<>>)

\* C10: when upstream streams its chunks and then ends, the page ends with
\* the transcript equal to their concatenation, not busy, and no error.
C10_EndToEnd ==
  (caller = "page" /\ relayState = "Completed" /\ readerEnd = "done") =>
    /\ analysis = Answer(deltas)
    /\ ~isLoading
    /\ error = <<>>

\* C11: the busy indicator is true in every state from the submission of a
\* frame until the page has seen its response end, and false once the
\* submission has ended, cleanly or by any failure.
C11_BusyWhileInFlight ==
  caller # "direct" =>
    /\ readerPc # "idle" => isLoading
    /\ readerPc = "idle" => ~isLoading

C11_Witness ==
  /\ caller = "page"
  /\ isLoading
  /\ readerPc = "reading"
  /\ analysis # <<>>
  /\ wire # <<>>

\* C12: a step in which a submission of the page fails (no response, error
\* response, read error) ends with a non-empty error message, the busy
\* indicator cleared and the transcript as it was before the step.
SubmissionFails ==
  /\ caller = "page"
  /\ readerPc # "idle"
  /\ readerPc' = "idle"
  /\ readerEnd' \in {"error", "failed"}

C12_FailureKeepsTranscript ==
  [][SubmissionFails =>
       /\ error' # <<>>
       /\ Len(error') = 2 /\ error'[2] = RetrySuffix
       /\ ~isLoading'
       /\ analysis' = analysis]_vars

C12_Witness ==
  /\ caller = "page"
  /\ relayState = "StreamError"
  /\ readerEnd = "error"
  /\ analysis # <<>>
  /\ error = <<"network error", RetrySuffix>>
  /\ ~isLoading

\* C13: a capture while the feed is not in the enough-data state shows the
\* "stream not ready" error, sends nothing to the relay and leaves the busy
\* indicator false; a request is only ever sent from a ready feed.
C13_NotReadyNoSubmission ==
  [][/\ NewRequest => (stream # NoStream /\ readyState = HaveEnoughData)
     /\ CaptureNotReady =>
          /\ error' = <<"Video stream not ready", RetrySuffix>>
          /\ ~isLoading'
          /\ readerPc' = "idle"
          /\ UNCHANGED <<caller, reqBody, relayVars, wireVars>>]_vars

C13_Witness ==
  /\ error = <<"Video stream not ready", RetrySuffix>>
  /\ stream # NoStream
  /\ readyState = HaveNothing
  /\ ~isLoading
  /\ caller = "none"
  /\ relayState = "Idle"

\* C14: in every state at most one device feed has live tracks: when a new
\* feed becomes the stream state while another acquired feed exists, the
\* earlier feed's tracks are stopped.
LiveFeeds == {i \in 1..Len(tracks) : tracks[i] = "live"}

C14_OneOpenFeed == Cardinality(LiveFeeds) <= 1

\* C15: stopCamera is idempotent: a second call in succession, or a call
\* with no active feed, changes nothing and raises no error.
C15_StopIdempotent ==
  LET once == StopCameraResult(CameraState)
      twice == StopCameraResult(once)
  IN /\ twice = once
     /\ ~once.threw /\ ~twice.threw
     /\ once.stream = NoStream
     /\ LiveFeeds \ {stream} = {i \in 1..Len(once.tracks) : once.tracks[i] = "live"}
     /\ stream = NoStream => once = CameraState

C15_Witness ==
  /\ stream = NoStream
  /\ Len(tracks) = 1
  /\ tracks[1] = "ended"
  /\ pendingGUM = 0

\* C16: the page's transcript after clean completion equals the decoding of
\* the whole byte sequence of the response, however the connection splits
\* the bytes into reads.
C16_SplitIndependent ==
  (caller = "page" /\ readerEnd = "done") =>
    analysis = Decode(Flatten(enqueued))

\* C17: a new submission clears the previous transcript and the previous
\* error before its request is sent, and from then on the transcript holds
\* only fragments of that submission: it is the read-by-read decoding of a
\* prefix of the bytes the relay enqueued for it.
RECURSIVE SplitDecodings(_)
SplitDecodings(bs) ==
  IF bs = <<>> THEN {<<>>}
  ELSE UNION {{Decode(SubSeq(bs, 1, k)) \o rest :
                 rest \in SplitDecodings(SubSeq(bs, k + 1, Len(bs)))} :
              k \in 1..Len(bs)}

FragmentsOfCurrent ==
  \E n \in 0..Len(Flatten(enqueued)) :
    analysis \in SplitDecodings(SubSeq(Flatten(enqueued), 1, n))

PageSubmits == NewRequest /\ caller' = "page"

C17_ClearedBeforeSubmission ==
  /\ [][PageSubmits => (analysis' = <<>> /\ error' = <<>>)]_vars
  /\ [](caller = "page" => FragmentsOfCurrent)
  /\ []((caller = "page" /\ readerPc = "fetching") => analysis = <<>>)

C17_Witness ==
  /\ caller = "page"
  /\ readerPc = "fetching"
  /\ prevReject.kind = "upstream"
  /\ analysis = <<>>
  /\ error = <<>>
  /\ isLoading

\* C18: at most one submission of the page is in flight: a capture can
\* start only while the busy indicator is false, which never happens during
\* a submission, and the transcript changes only by being reset by a new
\* submission or by a fragment of the one in flight being appended.
C18_SingleSubmission ==
  /\ [](~isLoading => readerPc = "idle")
  /\ [][PageSubmits => (~isLoading /\ isLoading')]_vars
  /\ [][analysis' # analysis =>
          \/ PageSubmits /\ analysis' = <<>>
          \/ /\ readerPc = "reading" /\ isLoading /\ ~NewRequest
             /\ IsPrefix(analysis, analysis')
             /\ UNCHANGED <<enqueued, caller>>]_vars

C18_Witness ==
  /\ isLoading
  /\ readerPc = "reading"
  /\ analysis # <<>>
  /\ Len(tracks) = 2
  /\ stream = 2
  /\ prevReject.kind # "none"

\* C19: once a change listener is registered and every change notification
\* has been processed, the displayed permission state equals the platform's
\* current state, however often the permission was queried.
C19_PermissionInSync ==
  (listeners > 0 /\ permEvents = 0) => permissionState = platformPerm

C19_Witness ==
  /\ listeners >= 2
  /\ permEvents = 0
  /\ permQueries = 0
  /\ platformPerm = "denied"
  /\ permissionState = "denied"

\* C20: stopCamera changes only the feed and its preview: the transcript,
\* the busy indicator, the error and the submission in flight are left as
\* they are, and the submission's next read stays possible with the camera
\* stopped.
C20_StopLeavesSubmission ==
  /\ [][StopCamera =>
          /\ UNCHANGED <<analysis, isLoading, error>>
          /\ UNCHANGED <<caller, reqBody, readerPc, readerEnd, relayVars,
                         wireVars>>]_vars
  /\ []((stream = NoStream /\ readerPc = "reading" /\ wire # <<>>)
          => ENABLED ReadChunk(1))

C20_Witness ==
  /\ stream = NoStream
  /\ Len(tracks) >= 1
  /\ isLoading
  /\ readerPc = "reading"
  /\ wire # <<>>
  /\ analysis # <<>>

====
